---- MODULE Spec2Model ----
(***************************************************************************)
(* gohue bridge.go: the transport helper (Get/Put/Post/Delete), the        *)
(* response classifier HandleResponse, discovery, identity, authentication *)
(* and the light/sensor accessors of one Bridge value.                     *)
(*                                                                         *)
(* Response bodies and error messages are strings; the Go string           *)
(* operations (strings.Contains, Index, LastIndex, slicing with its        *)
(* run-time bounds check) are computed on them position by position.       *)
(* A call either returns or panics; a panic ends the program.              *)
(***************************************************************************)
EXTENDS Integers, Sequences, FiniteSets, TLC

\* bridge: the Bridge value the methods are called on.
\* last: the call in progress or just returned (op "none" between calls): its
\*       arguments, what the network answered, what it handed back, and the
\*       Bridge value it started from.
\* authenticated: some Login or CreateUser on bridge has returned a nil error.
VARIABLES bridge, last, authenticated

vars == <<bridge, last, authenticated>>

\* Largest light/sensor index passed to the by-index accessors.
MaxIndex == 2

(***************************************************************************)
(* Go strings                                                              *)
(***************************************************************************)

\* The one-byte string at 1-based position i.
Ch(s, i) == SubSeq(s, i, i)

\* sub occurs in s at 0-based offset k.
At(s, sub, k) ==
    /\ k >= 0
    /\ k + Len(sub) <= Len(s)
    /\ SubSeq(s, k + 1, k + Len(sub)) = sub

Offsets(s, sub) == {k \in 0..(Len(s) - Len(sub)) : At(s, sub, k)}

Contains(s, sub) == Offsets(s, sub) # {}

SetMin(S) == CHOOSE x \in S : \A y \in S : x <= y

SetMax(S) == CHOOSE x \in S : \A y \in S : x >= y

\* strings.Index: first 0-based offset, -1 when absent.
Index(s, sub) == LET o == Offsets(s, sub) IN IF o = {} THEN -1 ELSE SetMin(o)

\* strings.LastIndex: last 0-based offset, -1 when absent.
LastIndex(s, sub) == LET o == Offsets(s, sub) IN IF o = {} THEN -1 ELSE SetMax(o)

\* s[lo:hi] is in range; Go panics otherwise.
SliceOK(s, lo, hi) == 0 <= lo /\ lo <= hi /\ hi <= Len(s)

\* s[lo:hi]
Slice(s, lo, hi) == SubSeq(s, lo + 1, hi)

HasPrefix(s, p) == At(s, p, 0)

Digits == "0123456789"

IsDigit(c) == Len(c) = 1 /\ Contains(Digits, c)

DigitVal(c) == Index(Digits, c)

RECURSIVE NatStr(_)
NatStr(n) == IF n < 10 THEN Ch(Digits, n + 1) ELSE NatStr(n \div 10) \o Ch(Digits, (n % 10) + 1)

\* fmt's %d
Itoa(n) == IF n < 0 THEN "-" \o NatStr(0 - n) ELSE NatStr(n)

RECURSIVE DigitsVal(_, _, _)
DigitsVal(s, i, acc) ==
    IF i > Len(s) THEN acc ELSE DigitsVal(s, i + 1, acc * 10 + DigitVal(Ch(s, i)))

\* strconv.Atoi on keys short enough not to overflow int: an optional sign and
\* at least one digit.
Atoi(s) ==
    LET signed == Len(s) > 0 /\ Ch(s, 1) \in {"+", "-"}
        d == IF signed THEN SubSeq(s, 2, Len(s)) ELSE s
        good == Len(d) > 0 /\ \A i \in 1..Len(d) : IsDigit(Ch(d, i))
    IN  IF ~good THEN [ok |-> FALSE, n |-> 0]
        ELSE [ok |-> TRUE,
              n |-> IF signed /\ Ch(s, 1) = "-" THEN 0 - DigitsVal(d, 1, 0) ELSE DigitsVal(d, 1, 0)]

(***************************************************************************)
(* Errors                                                                  *)
(***************************************************************************)

\* The nil error.
Nil == "<nil>"

\* fmt.Errorf("<prefix>: %w", err)
Wrap(prefix, e) == prefix \o ": " \o e

\* Texts of the errors the Go libraries hand back.
NetErrText == "dial tcp: i/o timeout"
ReadErrText == "unexpected EOF"
RequestErrText == "net/url: invalid control character in URL"
MarshalErrText == "json: unsupported type"
JsonSyntaxText == "json: invalid character"
JsonTypeText == "json: cannot unmarshal"
AtoiErrText == "strconv.Atoi: invalid syntax"
XmlEofText == "EOF"
XmlSyntaxText == "XML syntax error"
XmlRootText == "expected element type <root>"

(***************************************************************************)
(* Transport helper and response classifier                                *)
(***************************************************************************)

\* What the network does with one request: the request cannot be built, the
\* round trip fails, the body cannot be read, or a body arrives.
ReqErr == [kind |-> "reqerr", body |-> ""]
NetErr == [kind |-> "neterr", body |-> ""]
ReadErr == [kind |-> "readerr", body |-> ""]
Arrives(b) == [kind |-> "ok", body |-> b]

\* ([]byte, io.Reader, error) of a call that returned, or a panic.
Returned(body, reader, err) ==
    [outcome |-> "return", body |-> body, reader |-> reader, err |-> err]

Panicked == [outcome |-> "panic", body |-> "", reader |-> FALSE, err |-> Nil]

Failed(err) == Returned("", FALSE, err)

uri(b, path) == "http://" \o b.IPAddress \o path

ErrorMarker == "\"error\""

HandleResponse(resp) ==
    IF resp.kind = "readerr" THEN Failed(Wrap("unable to read response", ReadErrText))
    ELSE LET body == resp.body IN
         IF Contains(body, ErrorMarker)
         THEN LET numLo == Index(body, "type\":") + 6
                  numHi == Index(body, ",\"address")
                  descLo == Index(body, "description\":\"") + 14
                  descHi == Index(body, "\"}}")
              IN  IF ~SliceOK(body, numLo, numHi) THEN Panicked
                  ELSE IF ~SliceOK(body, descLo, descHi) THEN Panicked
                  ELSE Failed("failed to handle response: error type "
                              \o Slice(body, numLo, numHi) \o ": "
                              \o Slice(body, descLo, descHi))
         ELSE Returned(body, TRUE, Nil)

Get(b, path, resp) ==
    IF resp.kind \in {"reqerr", "neterr"}
    THEN Failed(Wrap("unable to access bridge", NetErrText))
    ELSE IF resp.kind = "readerr"
    THEN Failed(Wrap("unable to read response body", ReadErrText))
    ELSE Returned(resp.body, TRUE, Nil)

\* params: "nil", "ok" (marshals) or "bad" (json.Marshal fails).
Put(b, path, params, resp) ==
    IF params = "bad"
    THEN Failed(Wrap("unable to marshal PUT request interface", MarshalErrText))
    ELSE IF resp.kind = "reqerr"
    THEN Failed(Wrap("unable to create PUT request", RequestErrText))
    ELSE IF resp.kind = "neterr"
    THEN Failed(Wrap("unable to access bridge", NetErrText))
    ELSE HandleResponse(resp)

Post(b, path, params, resp) ==
    IF params # "nil" /\ params = "bad"
    THEN Failed(Wrap("unable to add POST body parameters due to json marshalling error",
                     MarshalErrText))
    ELSE IF resp.kind \in {"reqerr", "neterr"}
    THEN Failed(Wrap("unable to access bridge", NetErrText))
    ELSE HandleResponse(resp)

Delete(b, path, resp) ==
    LET Handled(r) ==
            IF r.outcome = "panic" THEN Panicked
            ELSE IF r.err # Nil THEN Failed(Wrap("unable to access bridge", r.err))
            ELSE Returned("", FALSE, Nil)
    IN  IF resp.kind = "reqerr"
        THEN Failed(Wrap("unable to create DELETE request", RequestErrText))
        ELSE IF resp.kind = "neterr"
        THEN Failed(Wrap("unable to access bridge", NetErrText))
        ELSE Handled(HandleResponse(resp))

(***************************************************************************)
(* encoding/json on compact documents (no white space between tokens)      *)
(***************************************************************************)

\* A decoded JSON value: t is "obj", "arr", "str", "num" or "lit"; s the text
\* of a string, number or literal; m the members of an object in document
\* order; a the elements of an array.
JStr(x) == [t |-> "str", s |-> x, m |-> <<>>, a |-> <<>>]
JNum(x) == [t |-> "num", s |-> x, m |-> <<>>, a |-> <<>>]
JLit(x) == [t |-> "lit", s |-> x, m |-> <<>>, a |-> <<>>]
JObj(ms) == [t |-> "obj", s |-> "", m |-> ms, a |-> <<>>]
JArr(es) == [t |-> "arr", s |-> "", m |-> <<>>, a |-> es]

JBad == [ok |-> FALSE, end |-> 0, v |-> JLit("")]
JGood(e, val) == [ok |-> TRUE, end |-> e, v |-> val]

\* Position of the quote closing a string whose text starts at i; 0 if none.
RECURSIVE ScanString(_, _)
ScanString(s, i) ==
    IF i > Len(s) THEN 0
    ELSE IF Ch(s, i) = "\"" THEN i
    ELSE IF Ch(s, i) = "\\" THEN ScanString(s, i + 2)
    ELSE ScanString(s, i + 1)

\* The text of a string literal with \" and \\ unescaped.
RECURSIVE Unquote(_, _)
Unquote(raw, i) ==
    IF i > Len(raw) THEN ""
    ELSE IF Ch(raw, i) = "\\" /\ i < Len(raw) THEN Ch(raw, i + 1) \o Unquote(raw, i + 2)
    ELSE Ch(raw, i) \o Unquote(raw, i + 1)

\* First position at or after i that holds no digit.
ScanDigits(s, i) == SetMin({k \in i..(Len(s) + 1) : k > Len(s) \/ ~IsDigit(Ch(s, k))})

RECURSIVE ParseValue(_, _)
RECURSIVE ParseMembers(_, _, _)
RECURSIVE ParseElems(_, _, _)

ParseValue(s, i) ==
    IF i > Len(s) THEN JBad
    ELSE LET c == Ch(s, i) IN
         IF c = "\""
         THEN LET Closed(q) ==
                      IF q = 0 THEN JBad
                      ELSE JGood(q + 1, JStr(Unquote(SubSeq(s, i + 1, q - 1), 1)))
              IN  Closed(ScanString(s, i + 1))
         ELSE IF c = "{"
         THEN IF i < Len(s) /\ Ch(s, i + 1) = "}" THEN JGood(i + 2, JObj(<<>>))
              ELSE ParseMembers(s, i + 1, <<>>)
         ELSE IF c = "["
         THEN IF i < Len(s) /\ Ch(s, i + 1) = "]" THEN JGood(i + 2, JArr(<<>>))
              ELSE ParseElems(s, i + 1, <<>>)
         ELSE IF IsDigit(c) \/ (c = "-" /\ i < Len(s) /\ IsDigit(Ch(s, i + 1)))
         THEN LET Number(e) == JGood(e, JNum(SubSeq(s, i, e - 1))) IN Number(ScanDigits(s, i + 1))
         ELSE IF At(s, "null", i - 1) THEN JGood(i + 4, JLit("null"))
         ELSE IF At(s, "true", i - 1) THEN JGood(i + 4, JLit("true"))
         ELSE IF At(s, "false", i - 1) THEN JGood(i + 5, JLit("false"))
         ELSE JBad

\* i is where a member's key must start.
ParseMembers(s, i, acc) ==
    LET After(key, val) ==
            IF ~val.ok \/ val.end > Len(s) THEN JBad
            ELSE IF Ch(s, val.end) = "}"
            THEN JGood(val.end + 1, JObj(Append(acc, [k |-> key, v |-> val.v])))
            ELSE IF Ch(s, val.end) = ","
            THEN ParseMembers(s, val.end + 1, Append(acc, [k |-> key, v |-> val.v]))
            ELSE JBad
        Keyed(q) ==
            IF q = 0 \/ q >= Len(s) \/ Ch(s, q + 1) # ":" THEN JBad
            ELSE After(Unquote(SubSeq(s, i + 1, q - 1), 1), ParseValue(s, q + 2))
    IN  IF i > Len(s) \/ Ch(s, i) # "\"" THEN JBad ELSE Keyed(ScanString(s, i + 1))

\* i is where an element must start.
ParseElems(s, i, acc) ==
    LET After(val) ==
            IF ~val.ok \/ val.end > Len(s) THEN JBad
            ELSE IF Ch(s, val.end) = "]" THEN JGood(val.end + 1, JArr(Append(acc, val.v)))
            ELSE IF Ch(s, val.end) = "," THEN ParseElems(s, val.end + 1, Append(acc, val.v))
            ELSE JBad
    IN  After(ParseValue(s, i))

\* The whole document is one JSON value.
ParseJSON(s) ==
    LET Whole(r) == IF r.ok /\ r.end = Len(s) + 1 THEN r ELSE JBad IN Whole(ParseValue(s, 1))

\* encoding/json matches a key to a struct field ignoring case.
FieldKeys(field) ==
    CASE field = "name" -> {"name", "Name", "NAME"}
      [] field = "internalipaddress" -> {"internalipaddress", "InternalIPAddress"}
      [] field = "username" -> {"username", "Username", "USERNAME"}
      [] OTHER -> {field}

\* The members of object value v that fill struct field `field`.
FieldMembers(v, field) == {i \in 1..Len(v.m) : v.m[i].k \in FieldKeys(field)}

\* A string field after decoding object v: the last matching member wins,
\* null leaves the zero value.
StringField(v, field) ==
    LET hits == FieldMembers(v, field) IN
    IF hits = {} THEN ""
    ELSE LET x == v.m[SetMax(hits)].v IN IF x.t = "str" THEN x.s ELSE ""

\* Decoding object v reports a type error for string field `field`.
StringFieldMismatch(v, field) ==
    \E i \in FieldMembers(v, field) : v.m[i].v.t # "str" /\ v.m[i].v # JLit("null")

(***************************************************************************)
(* encoding/xml on documents of plain elements (no attributes, no prolog)  *)
(***************************************************************************)

\* An element: its name, its character data, its child elements.
XElem(n, t, ks) == [name |-> n, text |-> t, kids |-> ks]

XBad == [ok |-> FALSE, end |-> 0, el |-> XElem("", "", <<>>)]
XGood(e, x) == [ok |-> TRUE, end |-> e, el |-> x]

\* First position at or after i holding character c; 0 if none.
Find(s, c, i) ==
    LET hits == {k \in i..Len(s) : Ch(s, k) = c} IN IF hits = {} THEN 0 ELSE SetMin(hits)

\* The name of the start tag opening at position i ("" when there is none).
StartTagName(s, i) ==
    LET gt == Find(s, ">", i) IN
    IF i > Len(s) \/ Ch(s, i) # "<" \/ gt = 0 \/ gt = i + 1 THEN ""
    ELSE IF Ch(s, i + 1) \in {"/", "?", "!"} THEN ""
    ELSE SubSeq(s, i + 1, gt - 1)

RECURSIVE ParseElement(_, _)
RECURSIVE ParseContent(_, _, _, _)

\* The element whose start tag opens at position i.
ParseElement(s, i) ==
    LET Named(n) ==
            IF n = "" THEN XBad ELSE ParseContent(s, i + Len(n) + 2, n, XElem(n, "", <<>>))
    IN  Named(StartTagName(s, i))

\* The content of element n from position i on, up to its end tag.
ParseContent(s, i, n, acc) ==
    LET Child(kid, txt) ==
            IF ~kid.ok THEN XBad
            ELSE ParseContent(s, kid.end, n, XElem(n, txt, Append(acc.kids, kid.el)))
        Upto(lt) ==
            IF lt = 0 THEN XBad
            ELSE IF At(s, "</", lt - 1)
            THEN IF At(s, "</" \o n \o ">", lt - 1)
                 THEN XGood(lt + Len(n) + 3, XElem(n, acc.text \o SubSeq(s, i, lt - 1), acc.kids))
                 ELSE XBad
            ELSE Child(ParseElement(s, lt), acc.text \o SubSeq(s, i, lt - 1))
    IN  Upto(Find(s, "<", i))

\* The character data of el's last child named n ("" when there is none).
ChildText(el, n) ==
    LET hits == {i \in 1..Len(el.kids) : el.kids[i].name = n} IN
    IF hits = {} THEN "" ELSE el.kids[SetMax(hits)].text

\* BridgeInfo{}
ZeroInfo ==
    [XMLName |-> "", DeviceType |-> "", FriendlyName |-> "", Manufacturer |-> "",
     ManufacturerURL |-> "", ModelDescription |-> "", ModelName |-> "",
     ModelNumber |-> "", ModelURL |-> "", SerialNumber |-> "", UDN |-> ""]

\* The <device> child of a <root> element that fills BridgeInfo.Device (an
\* empty one when the document has none).
Device(root) ==
    LET hits == {i \in 1..Len(root.kids) : root.kids[i].name = "device"} IN
    IF hits = {} THEN XElem("device", "", <<>>) ELSE root.kids[SetMax(hits)]

\* The fields of BridgeInfo filled from a <root> element and its <device>.
InfoOfDevice(root, dev) ==
        [XMLName |-> root.name,
         DeviceType |-> ChildText(dev, "deviceType"),
         FriendlyName |-> ChildText(dev, "friendlyName"),
         Manufacturer |-> ChildText(dev, "manufacturer"),
         ManufacturerURL |-> ChildText(dev, "manufacturerURL"),
         ModelDescription |-> ChildText(dev, "modelDescription"),
         ModelName |-> ChildText(dev, "modelName"),
         ModelNumber |-> ChildText(dev, "modelNumber"),
         ModelURL |-> ChildText(dev, "modelURL"),
         SerialNumber |-> ChildText(dev, "serialNumber"),
         UDN |-> ChildText(dev, "UDN")]

InfoOf(root) == InfoOfDevice(root, Device(root))

\* xml.NewDecoder(reader).Decode(&data) for data of type BridgeInfo: the first
\* start element must be <root>.
XmlDecodeInfo(body) ==
    LET Parsed(r) ==
            IF ~r.ok THEN [err |-> XmlSyntaxText, info |-> ZeroInfo]
            ELSE [err |-> Nil, info |-> InfoOf(r.el)]
        Started(lt, n) ==
            IF n = "" THEN [err |-> XmlSyntaxText, info |-> ZeroInfo]
            ELSE IF n # "root" THEN [err |-> XmlRootText, info |-> ZeroInfo]
            ELSE Parsed(ParseElement(body, lt))
        From(lt) ==
            IF lt = 0 THEN [err |-> XmlEofText, info |-> ZeroInfo]
            ELSE Started(lt, StartTagName(body, lt))
    IN  From(Find(body, "<", 1))

(***************************************************************************)
(* Bridge, Light, Sensor                                                   *)
(***************************************************************************)

\* The address of the Bridge value the calls are made on, and the nil pointer.
Self == "&bridge"
NilRef == "nil"

\* Bridge{IPAddress: ip}
NewBridgeValue(ip) == [IPAddress |-> ip, Username |-> "", Info |-> ZeroInfo]

\* Light{} and Sensor{}: the fields bridge.go reads and writes.
ZeroRes == [Index |-> 0, Name |-> "", Bridge |-> NilRef]

\* What a call hands back, and the Bridge value it leaves behind.
Out(outcome, err, b, target) ==
    [outcome |-> outcome, err |-> err, b |-> b, uri |-> target, val |-> "",
     res |-> ZeroRes, list |-> <<>>, found |-> <<>>, body |-> "", reader |-> FALSE]

\* The outcome of a transport call seen as the outcome of a whole call.
OfTransport(r, b, target) ==
    [outcome |-> r.outcome, err |-> r.err, b |-> b, uri |-> target, val |-> "",
     res |-> ZeroRes, list |-> <<>>, found |-> <<>>, body |-> r.body, reader |-> r.reader]

\* json.Unmarshal into a Light or Sensor struct.
DecodeRes(v) ==
    IF v = JLit("null") THEN [err |-> Nil, res |-> ZeroRes]
    ELSE IF v.t # "obj" THEN [err |-> JsonTypeText, res |-> ZeroRes]
    ELSE [err |-> IF StringFieldMismatch(v, "name") THEN JsonTypeText ELSE Nil,
          res |-> [ZeroRes EXCEPT !.Name = StringField(v, "name")]]

\* json.Unmarshal(body, &res) for res a Light or a Sensor.
UnmarshalRes(body) ==
    LET Parsed(p) == IF p.ok THEN DecodeRes(p.v) ELSE [err |-> JsonSyntaxText, res |-> ZeroRes]
    IN  Parsed(ParseJSON(body))

\* json.Unmarshal(body, &m) for m of type map[string]Light or map[string]Sensor.
\* A key given twice keeps its last value.
UnmarshalMap(body) ==
    LET none == [k \in {} |-> ZeroRes]
        Members(ms) ==
            [err |-> IF \E i \in 1..Len(ms) : DecodeRes(ms[i].v).err # Nil
                     THEN JsonTypeText ELSE Nil,
             map |-> [k \in {ms[i].k : i \in 1..Len(ms)} |->
                         DecodeRes(ms[SetMax({i \in 1..Len(ms) : ms[i].k = k})].v).res]]
        Parsed(p) ==
            IF ~p.ok THEN [err |-> JsonSyntaxText, map |-> none]
            ELSE IF p.v = JLit("null") THEN [err |-> Nil, map |-> none]
            ELSE IF p.v.t # "obj" THEN [err |-> JsonTypeText, map |-> none]
            ELSE Members(p.v.m)
    IN  Parsed(ParseJSON(body))

\* The orders in which a range over map m may visit its keys.
RangeOrders(m) ==
    LET n == Cardinality(DOMAIN m) IN
    {o \in [1..n -> DOMAIN m] : \A i, j \in 1..n : o[i] = o[j] => i = j}

\* RangeResources with each Index taken from the position in the range
\* instead of the key.
RECURSIVE RangeResourcesByPosition(_, _, _, _, _)
RangeResourcesByPosition(m, order, i, acc, what) ==
    IF i > Len(order) THEN [err |-> Nil, list |-> acc]
    ELSE LET key == order[i]
             n == Atoi(key)
         IN  IF ~n.ok
             THEN [err |-> Wrap("unable to convert " \o what \o " index to integer", AtoiErrText),
                   list |-> <<>>]
             ELSE RangeResourcesByPosition(m, order, i + 1,
                                           Append(acc, [m[key] EXCEPT !.Index = i, !.Bridge = Self]),
                                           what)

\* for index, res := range m { res.Index, err = strconv.Atoi(index); ... }
\* visiting the keys in `order` from its i-th on; acc is the list so far.
RECURSIVE RangeResources(_, _, _, _, _)
RangeResources(m, order, i, acc, what) ==
    IF i > Len(order) THEN [err |-> Nil, list |-> acc]
    ELSE LET key == order[i]
             n == Atoi(key)
         IN  IF ~n.ok
             THEN [err |-> Wrap("unable to convert " \o what \o " index to integer", AtoiErrText),
                   list |-> <<>>]
             ELSE RangeResources(m, order, i + 1,
                                 Append(acc, [m[key] EXCEPT !.Index = n.n, !.Bridge = Self]),
                                 what)

\* json.Unmarshal(body, &bridges) for bridges of type []Bridge.
DecodeBridge(v) ==
    IF v.t # "obj" THEN NewBridgeValue("")
    ELSE [IPAddress |-> StringField(v, "internalipaddress"),
          Username |-> StringField(v, "username"),
          Info |-> ZeroInfo]

UnmarshalBridges(body) ==
    LET mismatch(v) ==
            \/ v.t # "obj" /\ v # JLit("null")
            \/ v.t = "obj" /\ (StringFieldMismatch(v, "internalipaddress")
                               \/ StringFieldMismatch(v, "username"))
        Elems(es) ==
            [err |-> IF \E i \in 1..Len(es) : mismatch(es[i]) THEN JsonTypeText ELSE Nil,
             bridges |-> [i \in 1..Len(es) |-> DecodeBridge(es[i])]]
        Parsed(p) ==
            IF ~p.ok THEN [err |-> JsonSyntaxText, bridges |-> <<>>]
            ELSE IF p.v = JLit("null") THEN [err |-> Nil, bridges |-> <<>>]
            ELSE IF p.v.t # "arr" THEN [err |-> JsonTypeText, bridges |-> <<>>]
            ELSE Elems(p.v.a)
    IN  Parsed(ParseJSON(body))

(***************************************************************************)
(* Discovery, identity, authentication                                     *)
(***************************************************************************)

DiscoveryHost == "www.meethue.com"

\* FindBridges without the check for an empty list.
FindBridgesNoEmptyCheck(resp) ==
    LET b == NewBridgeValue(DiscoveryHost)
        target == uri(b, "/api/nupnp")
        Decoded(d) ==
            IF d.err # Nil
            THEN [Out("return", Wrap("unable to unmarshal bridge list", d.err), b, target)
                      EXCEPT !.found = d.bridges]
            ELSE [Out("return", Nil, b, target) EXCEPT !.found = d.bridges]
        Got(r) ==
            IF r.err # Nil
            THEN Out("return", Wrap("unable to locate bridge", r.err), b, target)
            ELSE Decoded(UnmarshalBridges(r.body))
    IN  Got(Get(b, "/api/nupnp", resp))

FindBridges(resp) ==
    LET b == NewBridgeValue(DiscoveryHost)
        target == uri(b, "/api/nupnp")
        Decoded(d) ==
            IF d.err # Nil
            THEN [Out("return", Wrap("unable to unmarshal bridge list", d.err), b, target)
                      EXCEPT !.found = d.bridges]
            ELSE IF Len(d.bridges) = 0
            THEN [Out("return", "no bridges found", b, target) EXCEPT !.found = d.bridges]
            ELSE [Out("return", Nil, b, target) EXCEPT !.found = d.bridges]
        Got(r) ==
            IF r.err # Nil
            THEN Out("return", Wrap("unable to locate bridge", r.err), b, target)
            ELSE Decoded(UnmarshalBridges(r.body))
    IN  Got(Get(b, "/api/nupnp", resp))

GetInfo(b, resp) ==
    LET target == uri(b, "/description.xml")
        Decoded(d) ==
            IF d.err # Nil
            THEN Out("return",
                     Wrap("failed to decode xml response from bridge description", d.err),
                     b, target)
            ELSE Out("return", Nil, [b EXCEPT !.Info = d.info], target)
        Got(r) == IF r.err # Nil THEN Out("return", r.err, b, target)
                  ELSE Decoded(XmlDecodeInfo(r.body))
    IN  Got(Get(b, "/description.xml", resp))

\* The returned *Bridge is in found; &Bridge{} on error.
NewBridge(ip, resp) ==
    LET Tested(g) ==
            IF g.err # Nil
            THEN [Out("return", g.err, g.b, g.uri) EXCEPT !.found = <<NewBridgeValue("")>>]
            ELSE [Out("return", Nil, g.b, g.uri) EXCEPT !.found = <<g.b>>]
    IN  Tested(GetInfo(NewBridgeValue(ip), resp))

\* Login assigning the token before it looks at the error.
LoginAssignFirst(b, username, resp) ==
    LET path == "/api/" \o username
        Got(r) == Out("return", r.err, [b EXCEPT !.Username = username], uri(b, path))
    IN  Got(Get(b, path, resp))

Login(b, username, resp) ==
    LET path == "/api/" \o username
        Got(r) == IF r.err # Nil THEN Out("return", r.err, b, uri(b, path))
                  ELSE Out("return", Nil, [b EXCEPT !.Username = username], uri(b, path))
    IN  Got(Get(b, path, resp))

\* CreateUser cutting at the first ":\"" and the first "\"" instead of the last.
CreateUserFirstIndex(b, deviceType, resp) ==
    LET target == uri(b, "/api")
        Cut(content, lo, hi) ==
            IF ~SliceOK(content, lo, hi) THEN Out("panic", Nil, b, target)
            ELSE [Out("return", Nil, [b EXCEPT !.Username = Slice(content, lo, hi)], target)
                      EXCEPT !.val = Slice(content, lo, hi)]
        Posted(r) ==
            IF r.outcome = "panic" THEN Out("panic", Nil, b, target)
            ELSE IF r.err # Nil THEN Out("return", r.err, b, target)
            ELSE Cut(r.body, Index(r.body, ":\"") + 2, Index(r.body, "\""))
    IN  Posted(Post(b, "/api", "ok", resp))

CreateUser(b, deviceType, resp) ==
    LET target == uri(b, "/api")
        Cut(content, lo, hi) ==
            IF ~SliceOK(content, lo, hi) THEN Out("panic", Nil, b, target)
            ELSE [Out("return", Nil, [b EXCEPT !.Username = Slice(content, lo, hi)], target)
                      EXCEPT !.val = Slice(content, lo, hi)]
        Posted(r) ==
            IF r.outcome = "panic" THEN Out("panic", Nil, b, target)
            ELSE IF r.err # Nil THEN Out("return", r.err, b, target)
            ELSE Cut(r.body, LastIndex(r.body, ":\"") + 2, LastIndex(r.body, "\""))
    IN  Posted(Post(b, "/api", "ok", resp))

DeleteUser(b, username, resp) ==
    LET path == "/api/" \o b.Username \o "/config/whitelist/" \o username
        Deleted(r) == Out(r.outcome, r.err, b, uri(b, path))
    IN  Deleted(Delete(b, path, resp))

(***************************************************************************)
(* Resource accessors                                                      *)
(***************************************************************************)

\* GetAllLights ("lights", "light") and GetAllSensors ("sensors", "sensor"),
\* the range over the decoded map visiting its keys in `order`.
GetAll(b, resp, order, coll, what, where) ==
    LET path == "/api/" \o b.Username \o "/" \o coll
        Ranged(l) == [Out("return", l.err, b, uri(b, path)) EXCEPT !.list = l.list]
        Decoded(d) ==
            IF d.err # Nil
            THEN Out("return", Wrap("unable to marshal " \o where \o " response", d.err),
                     b, uri(b, path))
            ELSE Ranged(RangeResources(d.map, order, 1, <<>>, what))
        Got(r) == IF r.err # Nil THEN Out("return", r.err, b, uri(b, path))
                  ELSE Decoded(UnmarshalMap(r.body))
    IN  Got(Get(b, path, resp))

GetAllLights(b, resp, order) == GetAll(b, resp, order, "lights", "light", "GetAllLights")

GetAllSensors(b, resp, order) == GetAll(b, resp, order, "sensors", "sensor", "GetAllSensors")

\* GetByIndex decoding the body before it looks for "not available".
GetByIndexDecodeFirst(b, index, resp, coll, bounds) ==
    LET path == "/api/" \o b.Username \o "/" \o coll \o "/" \o Itoa(index)
        Decoded(d, body) ==
            IF d.err # Nil
            THEN Out("return", Wrap("unable to unmarshal light data", d.err), b, uri(b, path))
            ELSE IF Contains(body, "not available") THEN Out("return", bounds, b, uri(b, path))
            ELSE [Out("return", Nil, b, uri(b, path))
                      EXCEPT !.res = [d.res EXCEPT !.Index = index, !.Bridge = Self]]
        Got(r) ==
            IF r.err # Nil THEN Out("return", r.err, b, uri(b, path))
            ELSE Decoded(UnmarshalRes(r.body), r.body)
    IN  Got(Get(b, path, resp))

\* GetLightByIndex and GetSensorByIndex.
GetByIndex(b, index, resp, coll, bounds) ==
    LET path == "/api/" \o b.Username \o "/" \o coll \o "/" \o Itoa(index)
        Decoded(d) ==
            IF d.err # Nil
            THEN Out("return", Wrap("unable to unmarshal light data", d.err), b, uri(b, path))
            ELSE [Out("return", Nil, b, uri(b, path))
                      EXCEPT !.res = [d.res EXCEPT !.Index = index, !.Bridge = Self]]
        Got(r) ==
            IF r.err # Nil THEN Out("return", r.err, b, uri(b, path))
            ELSE IF Contains(r.body, "not available") THEN Out("return", bounds, b, uri(b, path))
            ELSE Decoded(UnmarshalRes(r.body))
    IN  Got(Get(b, path, resp))

LightBounds == "Error: Light selection index out of bounds. "

SensorBounds == "Sensor selection index out of bounds. "

GetLightByIndex(b, index, resp) == GetByIndex(b, index, resp, "lights", LightBounds)

GetSensorByIndex(b, index, resp) == GetByIndex(b, index, resp, "sensors", SensorBounds)

FindNewLights(b, resp) ==
    LET path == "/api/" \o b.Username \o "/lights"
        Posted(r) == Out(r.outcome, r.err, b, uri(b, path))
    IN  Posted(Post(b, path, "nil", resp))

\* The first light of `lights` from the i-th on whose name is `name`.
RECURSIVE FirstNamed(_, _, _)
FirstNamed(lights, name, i) ==
    IF i > Len(lights) THEN 0
    ELSE IF lights[i].Name = name THEN i
    ELSE FirstNamed(lights, name, i + 1)

GetLightByName(b, name, resp, order) ==
    LET Found(g, i) ==
            IF i # 0 THEN [Out("return", Nil, b, g.uri) EXCEPT !.res = g.list[i]]
            ELSE Out("return", "light named '" \o name \o "' not found", b, g.uri)
        Scan(g) == Found(g, FirstNamed(g.list, name, 1))
    IN  Scan(GetAllLights(b, resp, order))

(***************************************************************************)
(* What the bridge, the discovery service and the caller supply            *)
(***************************************************************************)

BridgeAddress == "192.168.86.27"

\* [{"error":{"type":n,"address":"a","description":"d"}}]
Envelope(n, a, d) ==
    "[{\"error\":{\"type\":" \o n \o ",\"address\":\"" \o a
        \o "\",\"description\":\"" \o d \o "\"}}]"

\* Error reports of the bridge: type, address, and the description as it is
\* written in the body (the last one quotes a value holding a double quote).
ErrorCases ==
    {[n |-> "1", a |-> "/lights", d |-> "unauthorized user"],
     [n |-> "101", a |-> "", d |-> "link button not pressed"],
     [n |-> "3", a |-> "/lights/9", d |-> "resource, /lights/9, not available"],
     [n |-> "7", a |-> "/lights/1/name", d |-> "invalid value, a\\\"}}, for parameter, name"]}

ErrorEnvelopes == {Envelope(e.n, e.a, e.d) : e \in ErrorCases}

\* Bodies that hold the marker "error" without the envelope's shape: no type
\* and address, members in another order, type under another name.
OddErrorBodies ==
    {"{\"error\":\"x\"}",
     "[{\"error\":{\"description\":\"d\",\"address\":\"/\",\"type\":1}}]",
     "[{\"error\":{\"code\":1,\"address\":\"/\",\"description\":\"d\"}}]"}

\* [{"success":{"username":"t"}}]
Success(t) == "[{\"success\":{\"username\":\"" \o t \o "\"}}]"

\* Tokens the bridge issues.
IssuedTokens == {"abc123", "O-PpzqSJZW2a"}

\* Tokens the caller passes to Login and DeleteUser.
Tokens == {"abc123", "badtoken"}

SuccessBodies ==
    {Success(t) : t \in IssuedTokens}
        \cup {"[{\"success\":{\"/lights\":\"Searching for new devices\"}}]"}

\* One member of a lights or sensors document: its key, whether the key is an
\* integer and which, and the name inside its object.
Entry(key, isInt, n, name) == [key |-> key, isInt |-> isInt, n |-> n, name |-> name]

RECURSIVE MembersText(_, _)
MembersText(es, i) ==
    IF i > Len(es) THEN ""
    ELSE (IF i > 1 THEN "," ELSE "")
             \o "\"" \o es[i].key \o "\":{\"name\":\"" \o es[i].name \o "\"}"
             \o MembersText(es, i + 1)

\* {"key":{"name":"name"},...} in the order of es.
MapBody(es) == "{" \o MembersText(es, 1) \o "}"

\* Documents mapping keys to resources, as sequences of members.
MapCases ==
    {<<Entry("7", TRUE, 7, "a"), Entry("1", TRUE, 1, "b")>>,
     <<Entry("1", TRUE, 1, "b"), Entry("7", TRUE, 7, "a")>>,
     <<Entry("10", TRUE, 10, "a")>>,
     <<Entry("1", TRUE, 1, "a"), Entry("x", FALSE, 0, "b")>>,
     <<>>}

MapBodies == {MapBody(es) : es \in MapCases}

\* One light or sensor, as the by-index paths answer.
ResourceBodies == {"{\"name\":\"a\",\"state\":{\"on\":true}}"}

DiscoveryBodies ==
    {"[]",
     "[{\"id\":\"h1\",\"internalipaddress\":\"10.0.0.2\"}]",
     "[{\"id\":\"h1\",\"internalipaddress\":\"10.0.0.2\"},{\"id\":\"h2\",\"internalipaddress\":\"10.0.0.3\"}]"}

DescriptionBodies ==
    {"<root><device><friendlyName>hue</friendlyName><serialNumber>ecb5</serialNumber></device></root>",
     "<root><device><friendlyName>lab</friendlyName></device></root>",
     "<html><body>x</body></html>",
     "<root><device><friendlyName>hue</device></root>"}

\* Bodies holding the text "not available": the bridge's report for a missing
\* resource, and a body that is no JSON document.
NotAvailableBodies ==
    {Envelope("3", "/lights/9", "resource, /lights/9, not available"), "not available"}

\* The bridge's answer to a request made with a token it does not know.
Unauthorized == Envelope("1", "/lights", "unauthorized user")

OtherBodies == {"", "null", "not json"}

Bodies ==
    ErrorEnvelopes \cup OddErrorBodies \cup SuccessBodies \cup MapBodies
        \cup ResourceBodies \cup DiscoveryBodies \cup DescriptionBodies
        \cup NotAvailableBodies \cup OtherBodies

Responses == {ReqErr, NetErr, ReadErr} \cup {Arrives(b) : b \in Bodies}

Names == {"a", "zz"}

Indexes == 0..MaxIndex

(***************************************************************************)
(* The calls                                                               *)
(***************************************************************************)

Idle ==
    [op |-> "none", arg |-> "", resp |-> NetErr, pre |-> NewBridgeValue(""),
     outcome |-> "return", err |-> Nil, uri |-> "", val |-> "", res |-> ZeroRes,
     list |-> <<>>, found |-> <<>>, body |-> "", reader |-> FALSE]

Init ==
    /\ bridge = NewBridgeValue(BridgeAddress)
    /\ last = Idle
    /\ authenticated = FALSE

\* A method of bridge is called with arg, the network answers resp, and the
\* call ends as out says.
Call(op, arg, resp, out) ==
    /\ last.op = "none"
    /\ bridge' = out.b
    /\ last' = [op |-> op, arg |-> arg, resp |-> resp, pre |-> bridge,
                outcome |-> out.outcome, err |-> out.err, uri |-> out.uri,
                val |-> out.val, res |-> out.res, list |-> out.list,
                found |-> out.found, body |-> out.body, reader |-> out.reader]
    /\ authenticated' =
           (authenticated \/ (op \in {"Login", "CreateUser"}
                                /\ out.outcome = "return" /\ out.err = Nil))

\* A package-level function is called: it works on a Bridge value of its own.
CallFunc(op, arg, resp, out) ==
    /\ last.op = "none"
    /\ last' = [op |-> op, arg |-> arg, resp |-> resp, pre |-> bridge,
                outcome |-> out.outcome, err |-> out.err, uri |-> out.uri,
                val |-> out.val, res |-> out.res, list |-> out.list,
                found |-> out.found, body |-> out.body, reader |-> out.reader]
    /\ UNCHANGED <<bridge, authenticated>>

\* The orders a range over the map decoded from resp may take.
OrdersFor(resp) == RangeOrders(UnmarshalMap(resp.body).map)

DoGet ==
    \E resp \in Responses :
        Call("Get", "/api", resp, OfTransport(Get(bridge, "/api", resp), bridge, uri(bridge, "/api")))

DoPut ==
    \E resp \in Responses, params \in {"ok", "bad"} :
        Call("Put", params, resp,
             OfTransport(Put(bridge, "/api", params, resp), bridge, uri(bridge, "/api")))

DoPost ==
    \E resp \in Responses, params \in {"nil", "ok", "bad"} :
        Call("Post", params, resp,
             OfTransport(Post(bridge, "/api", params, resp), bridge, uri(bridge, "/api")))

DoDelete ==
    \E resp \in Responses :
        Call("Delete", "/api", resp,
             OfTransport(Delete(bridge, "/api", resp), bridge, uri(bridge, "/api")))

DoHandleResponse ==
    \E resp \in Responses \ {ReqErr, NetErr} :
        CallFunc("HandleResponse", "", resp, OfTransport(HandleResponse(resp), bridge, ""))

DoFindBridges == \E resp \in Responses : CallFunc("FindBridges", "", resp, FindBridges(resp))

DoNewBridge ==
    \E resp \in Responses : CallFunc("NewBridge", BridgeAddress, resp, NewBridge(BridgeAddress, resp))

DoGetInfo == \E resp \in Responses : Call("GetInfo", "", resp, GetInfo(bridge, resp))

DoLogin ==
    \E resp \in Responses, t \in Tokens : Call("Login", t, resp, Login(bridge, t, resp))

DoCreateUser ==
    \E resp \in Responses : Call("CreateUser", "test-app", resp, CreateUser(bridge, "test-app", resp))

DoDeleteUser ==
    \E resp \in Responses, t \in Tokens : Call("DeleteUser", t, resp, DeleteUser(bridge, t, resp))

DoGetAllLights ==
    \E resp \in Responses : \E order \in OrdersFor(resp) :
        Call("GetAllLights", "", resp, GetAllLights(bridge, resp, order))

DoGetLightByIndex ==
    \E resp \in Responses, i \in Indexes :
        Call("GetLightByIndex", Itoa(i), resp, GetLightByIndex(bridge, i, resp))

DoFindNewLights ==
    \E resp \in Responses : Call("FindNewLights", "", resp, FindNewLights(bridge, resp))

DoGetLightByName ==
    \E resp \in Responses, name \in Names : \E order \in OrdersFor(resp) :
        Call("GetLightByName", name, resp, GetLightByName(bridge, name, resp, order))

DoGetAllSensors ==
    \E resp \in Responses : \E order \in OrdersFor(resp) :
        Call("GetAllSensors", "", resp, GetAllSensors(bridge, resp, order))

DoGetSensorByIndex ==
    \E resp \in Responses, i \in Indexes :
        Call("GetSensorByIndex", Itoa(i), resp, GetSensorByIndex(bridge, i, resp))

\* The caller drops what the call handed back and goes on to its next call.
\* A call that panicked has ended the program.
Discard ==
    /\ last.op # "none"
    /\ last.outcome = "return"
    /\ last' = Idle
    /\ UNCHANGED <<bridge, authenticated>>

Next ==
    \/ DoGet
    \/ DoPut
    \/ DoPost
    \/ DoDelete
    \/ DoHandleResponse
    \/ DoFindBridges
    \/ DoNewBridge
    \/ DoGetInfo
    \/ DoLogin
    \/ DoCreateUser
    \/ DoDeleteUser
    \/ DoGetAllLights
    \/ DoGetLightByIndex
    \/ DoFindNewLights
    \/ DoGetLightByName
    \/ DoGetAllSensors
    \/ DoGetSensorByIndex
    \/ Discard

Spec == Init /\ [][Next]_vars

(***************************************************************************)
(* Properties                                                              *)
(***************************************************************************)

\* The network delivered a body to the call in last.
Delivered == last.resp.kind = "ok"

\* The call in last returned an error.
ReturnedError == last.outcome = "return" /\ last.err # Nil

Accessors ==
    {"GetAllLights", "GetLightByIndex", "GetLightByName", "FindNewLights",
     "GetAllSensors", "GetSensorByIndex"}

\* C1: Login against a bridge that answers with the error envelope returns an
\* error and leaves the Bridge's credential as it was.
C1_LoginRejectedKeepsCredential ==
    (last.op = "Login" /\ Delivered /\ last.resp.body \in ErrorEnvelopes)
        => (ReturnedError /\ bridge.Username = last.pre.Username)

\* C2: Get, Put, Post and Delete alike return an error and no body whenever
\* the response body holds the error marker.
C2_EveryVerbClassified ==
    (last.op \in {"Get", "Put", "Post", "Delete"} /\ Delivered
        /\ Contains(last.resp.body, ErrorMarker))
        => (ReturnedError /\ last.body = "" /\ ~last.reader)

\* C3: CreateUser on the success envelope of token t returns exactly t with no
\* error and stores t as the credential; when the POST fails or the bridge
\* reports an error it returns "" with an error and keeps the credential.
C3_CreateUser ==
    last.op = "CreateUser" =>
        /\ \A t \in IssuedTokens :
               last.resp = Arrives(Success(t)) =>
                   /\ last.outcome = "return"
                   /\ last.err = Nil
                   /\ last.val = t
                   /\ bridge.Username = t
        /\ (~Delivered \/ last.resp.body \in ErrorEnvelopes) =>
               /\ ReturnedError
               /\ last.val = ""
               /\ bridge.Username = last.pre.Username

C3_Witness ==
    /\ last.op = "CreateUser"
    /\ last.resp = Arrives(Success("abc123"))
    /\ last.pre.Username = "badtoken"
    /\ bridge.Username = "abc123"
    /\ last.val = "abc123"

\* C4: HandleResponse on the envelope of type n and description d returns an
\* empty body and the error "failed to handle response: error type n: d".
C4_EnvelopeMessage ==
    \A e \in ErrorCases :
        (last.op = "HandleResponse" /\ last.resp = Arrives(Envelope(e.n, e.a, e.d)))
            => /\ ReturnedError
               /\ last.body = ""
               /\ last.err = "failed to handle response: error type " \o e.n \o ": " \o e.d

\* The resources a document of members es stands for.
Expected(es) ==
    {[Index |-> es[i].n, Name |-> es[i].name, Bridge |-> Self] : i \in 1..Len(es)}

\* C5: GetAllLights and GetAllSensors return one resource per key, each with
\* the integer of its own key as Index and the called Bridge as back-reference,
\* whatever the order of the document and of the range; a key that is no
\* integer gives an error and an empty list.
C5_IndexFromKey ==
    \A es \in MapCases :
        (last.op \in {"GetAllLights", "GetAllSensors"} /\ last.resp = Arrives(MapBody(es)))
            => IF \A i \in 1..Len(es) : es[i].isInt
               THEN /\ last.outcome = "return"
                    /\ last.err = Nil
                    /\ Len(last.list) = Len(es)
                    /\ {last.list[i] : i \in 1..Len(last.list)} = Expected(es)
               ELSE ReturnedError /\ last.list = <<>>

\* The document names key 7 first and the range visited key 1 first.
C5_Witness ==
    /\ last.op = "GetAllLights"
    /\ last.resp = Arrives(MapBody(<<Entry("7", TRUE, 7, "a"), Entry("1", TRUE, 1, "b")>>))
    /\ last.list = <<[Index |-> 1, Name |-> "b", Bridge |-> Self],
                     [Index |-> 7, Name |-> "a", Bridge |-> Self]>>

\* C6: before any Login or CreateUser has succeeded, an accessor whose request
\* the bridge rejects returns the bridge-reported error.
C6_RejectedBeforeAuthenticated ==
    (last.op \in Accessors /\ ~authenticated /\ last.resp = Arrives(Unauthorized))
        => /\ ReturnedError
           /\ last.err = "failed to handle response: error type 1: unauthorized user"

\* An error of the transport or of decoding.
TransportOrDecodeError(e) ==
    \/ HasPrefix(e, "unable to access bridge")
    \/ HasPrefix(e, "unable to read response body")
    \/ HasPrefix(e, "unable to unmarshal")

\* C7: GetLightByIndex and GetSensorByIndex on a delivered body holding "not
\* available" return the index-out-of-bounds error and a zero resource, also
\* for a body no JSON decoder accepts.
C7_NotAvailable ==
    (last.op \in {"GetLightByIndex", "GetSensorByIndex"} /\ Delivered
        /\ last.resp.body \in NotAvailableBodies)
        => /\ last.outcome = "return"
           /\ last.err = (IF last.op = "GetLightByIndex"
                          THEN "Error: Light selection index out of bounds. "
                          ELSE "Sensor selection index out of bounds. ")
           /\ last.res = ZeroRes
           /\ ~TransportOrDecodeError(last.err)

C7_Witness ==
    /\ last.op = "GetSensorByIndex"
    /\ last.resp = Arrives("not available")
    /\ last.err = "Sensor selection index out of bounds. "

C9_HandleResponseTotal ==
    (last.op = "HandleResponse" /\ Delivered)
        => /\ last.outcome = "return"
           /\ IF Contains(last.resp.body, ErrorMarker)
              THEN last.err # Nil
              ELSE last.err = Nil /\ last.body = last.resp.body

\* C10: a call never changes the address; the credential changes only in a
\* Login or CreateUser that returns no error; the identity changes only in a
\* GetInfo that returns no error, which replaces it whole; a call that returns
\* an error, and every accessor and DeleteUser, leaves the Bridge as it was.
C10_Frame ==
    last.op # "none" =>
        /\ bridge.IPAddress = last.pre.IPAddress
        /\ bridge.Username # last.pre.Username =>
               (last.op \in {"Login", "CreateUser"} /\ last.outcome = "return" /\ last.err = Nil)
        /\ bridge.Info # last.pre.Info =>
               (last.op = "GetInfo" /\ last.outcome = "return" /\ last.err = Nil)
        /\ (last.op = "GetInfo" /\ last.err = Nil
                /\ last.resp = Arrives("<root><device><friendlyName>lab</friendlyName></device></root>"))
               => bridge.Info = [ZeroInfo EXCEPT !.XMLName = "root", !.FriendlyName = "lab"]
        /\ ReturnedError => bridge = last.pre
        /\ last.op \in Accessors \cup {"DeleteUser"} => bridge = last.pre

\* GetInfo replaced an identity that had a serial number by one that has none.
C10_Witness ==
    /\ last.op = "GetInfo"
    /\ last.err = Nil
    /\ last.pre.Info.SerialNumber = "ecb5"
    /\ bridge.Info.SerialNumber = ""
    /\ bridge.Username = "abc123"

====
